---- MODULE Spec2Model ----
(***************************************************************************)
(* Model of the Ollama model provider                                      *)
(* (src/src/lib/models/providers/ollama/index.ts).                         *)
(*                                                                         *)
(* JavaScript values are records [t, s, n]: t is the runtime type, s the   *)
(* string payload, n the numeric payload (1/0 for true/false).  The        *)
(* conversions the code applies (truthiness, String(), template literals)  *)
(* are operators on these records.                                         *)
(*                                                                         *)
(* Three specifications:                                                   *)
(*   SpecParse  the static parseAndValidate applied to raw inputs;         *)
(*   Spec       one caller running the provider's operations one after     *)
(*              another, over every config, catalog response and registry; *)
(*   SpecConc   several callers running operations concurrently while the  *)
(*              registry is being edited.                                  *)
(***************************************************************************)
EXTENDS Integers, Sequences, FiniteSets, TLC

VARIABLES raw, parsed, config, registry, calls

vars == <<raw, parsed, config, registry, calls>>

(***************************************************************************)
(* Bounds.                                                                 *)
(***************************************************************************)
MaxCatalog == 2
MaxRegistry == 1
MaxCalls == 2

(***************************************************************************)
(* JavaScript values.                                                      *)
(***************************************************************************)
Undefined == [t |-> "undefined", s |-> "", n |-> 0]
Null == [t |-> "null", s |-> "", n |-> 0]
Str(x) == [t |-> "string", s |-> x, n |-> 0]
Num(k) == [t |-> "number", s |-> "", n |-> k]
Bool(b) == [t |-> "boolean", s |-> "", n |-> IF b THEN 1 ELSE 0]
EmptyArray == [t |-> "array", s |-> "", n |-> 0]
PlainObject == [t |-> "object", s |-> "", n |-> 0]

\* ToBoolean: what `!x`, `x || y` and `x ? a : b` test.
Truthy(v) ==
  CASE v.t = "undefined" -> FALSE
    [] v.t = "null" -> FALSE
    [] v.t = "string" -> v.s # ""
    [] v.t = "number" -> v.n # 0
    [] v.t = "boolean" -> v.n = 1
    [] OTHER -> TRUE

\* The typeof operator.
TypeOf(v) ==
  CASE v.t = "undefined" -> "undefined"
    [] v.t = "string" -> "string"
    [] v.t = "number" -> "number"
    [] v.t = "boolean" -> "boolean"
    [] OTHER -> "object"

Digits == <<"0", "1", "2", "3", "4", "5", "6", "7", "8", "9">>

RECURSIVE DecimalString(_)
DecimalString(k) ==
  IF k < 10 THEN Digits[k + 1]
  ELSE DecimalString(k \div 10) \o Digits[(k % 10) + 1]

\* String(v), also the conversion a template literal applies.
JsString(v) ==
  CASE v.t = "undefined" -> "undefined"
    [] v.t = "null" -> "null"
    [] v.t = "string" -> v.s
    [] v.t = "number" -> DecimalString(v.n)
    [] v.t = "boolean" -> (IF v.n = 1 THEN "true" ELSE "false")
    [] v.t = "array" -> ""
    [] OTHER -> "[object Object]"

\* x || y
Or(x, y) == IF Truthy(x) THEN x ELSE y

(***************************************************************************)
(* Errors.                                                                 *)
(***************************************************************************)
NoError == [type |-> "", message |-> ""]
Err(ty, msg) == [type |-> ty, message |-> msg]

ExpectedObjectMsg == "Invalid config provided. Expected object"
InvalidModeMsg == "Invalid mode. Must be \"local\" or \"cloud\""
ApiKeyRequiredMsg ==
  "API Key is required for Ollama Cloud mode. Get one at https://ollama.com"
ConnectionMsg ==
  "Error connecting to Ollama API. Please ensure the base URL is correct and the Ollama server is running."
ChatNotFoundMsg == "Error Loading Ollama Chat Model. Invalid Model Selected"
EmbeddingNotFoundMsg ==
  "Error Loading Ollama Embedding Model. Invalid Model Selected."

(***************************************************************************)
(* parseAndValidate.                                                       *)
(***************************************************************************)
NoConfig == [mode |-> Undefined, baseURL |-> Undefined, apiKey |-> Undefined]
NotParsed == [status |-> "pending", error |-> NoError, config |-> NoConfig]
ParseFails(msg) ==
  [status |-> "error", error |-> Err("Error", msg), config |-> NoConfig]

\* raw.mode || 'local'
ModeWithoutDefault(r) == r.mode
EffectiveMode(r) == Or(r.mode, Str("local"))

parseAndValidate(r) ==
  IF ~Truthy(r.self) \/ TypeOf(r.self) # "object"
  THEN ParseFails(ExpectedObjectMsg)
  ELSE LET mode == EffectiveMode(r)
       IN IF mode # Str("local") /\ mode # Str("cloud")
          THEN ParseFails(InvalidModeMsg)
          ELSE IF mode = Str("cloud") /\ ~Truthy(r.apiKey)
          THEN ParseFails(ApiKeyRequiredMsg)
          ELSE [status |-> "ok",
                error |-> NoError,
                config |->
                  [mode |-> mode,
                   baseURL |-> IF Truthy(r.baseURL)
                               THEN Str(JsString(r.baseURL)) ELSE Undefined,
                   apiKey |-> IF Truthy(r.apiKey)
                              THEN Str(JsString(r.apiKey)) ELSE Undefined]]

\* Raw inputs: values that are no object, and objects (plain or array)
\* whose mode, baseURL and apiKey properties hold any of these values.
ModeValues ==
  {Undefined, Null, Str(""), Str("local"), Str("cloud"), Str("bogus"),
   Num(0), Bool(FALSE), Bool(TRUE), EmptyArray}
BaseURLValues ==
  {Undefined, Str(""), Str("http://x:1"), Num(11434), EmptyArray}
ApiKeyValues ==
  {Undefined, Null, Str(""), Str("x"), Num(0), Num(42), Bool(TRUE),
   EmptyArray, PlainObject}
NonObjects ==
  {Undefined, Null, Str(""), Str("str"), Num(0), Num(7), Bool(FALSE),
   Bool(TRUE)}
RawInputs ==
  [self : NonObjects \cup {EmptyArray},
   mode : {Undefined}, baseURL : {Undefined}, apiKey : {Undefined}]
  \cup [self : {PlainObject},
        mode : ModeValues, baseURL : BaseURLValues, apiKey : ApiKeyValues]
NoRaw ==
  [self |-> Undefined, mode |-> Undefined, baseURL |-> Undefined,
   apiKey |-> Undefined]

(***************************************************************************)
(* Provider data: configs, catalog responses, the registry.                *)
(***************************************************************************)
SeqsUpTo(S, k) == UNION {[1..j -> S] : j \in 0..k}

\* OllamaConfig values the constructor can be given.
Configs ==
  [mode : {Str("local"), Str("cloud")},
   baseURL : {Undefined, Str(""), Str("http://x:1")},
   apiKey : {Undefined, Str(""), Str("k")}]

\* Entries of the catalog's `models` array.
CatalogEntries ==
  {[name |-> "Llama 3", model |-> "llama3"],
   [name |-> "Nomic Embed", model |-> "embed"]}

\* Response bodies: not JSON at all, JSON null, an object with no `models`
\* (such as {} or {"error": ...}), an object whose `models` is no array, and
\* the expected shape {models: [...]}.
BodyShapes == {"malformed", "null", "noModels", "notArray"}
Bodies ==
  [shape : BodyShapes, models : {<<>>}]
  \cup [shape : {"ok"}, models : SeqsUpTo(CatalogEntries, MaxCatalog)]

\* What the fetch of line 76 settles with: a transport failure, or a
\* response with a 2xx or non-2xx status and a body.
NoBody == [shape |-> "malformed", models |-> <<>>]
TransportFailure == [failed |-> TRUE, status2xx |-> FALSE, body |-> NoBody]
FetchOutcomes ==
  {TransportFailure}
  \cup [failed : {FALSE}, status2xx : BOOLEAN, body : Bodies]

\* The models configured for this provider id in the server registry.
RegistryChatModels ==
  {[name |-> "My Llama", key |-> "llama3"],
   [name |-> "Custom", key |-> "custom"]}
RegistryEmbeddingModels == {[name |-> "My Embed", key |-> "embed"]}
Registries ==
  [chatModels : SeqsUpTo(RegistryChatModels, MaxRegistry),
   embeddingModels : SeqsUpTo(RegistryEmbeddingModels, MaxRegistry)]
getConfiguredModelProviderById == registry

Ops == {"getDefaultModels", "getModelList", "loadChatModel",
        "loadEmbeddingModel"}
LoadOps == {"loadChatModel", "loadEmbeddingModel"}
Keys == {"llama3", "custom", "embed"}
Calls == 1..MaxCalls

(***************************************************************************)
(* The state of one call.                                                  *)
(***************************************************************************)
NoClient ==
  [cls |-> "", baseURL |-> Undefined, model |-> "", apiKey |-> Undefined]
NoOutcome ==
  [status |-> "none", error |-> NoError, chat |-> <<>>, embedding |-> <<>>,
   client |-> NoClient]
Rejected(e) == [NoOutcome EXCEPT !.status = "error", !.error = e]
ModelListOf(ch, em) ==
  [NoOutcome EXCEPT !.status = "models", !.chat = ch, !.embedding = em]
Constructed(cl) == [NoOutcome EXCEPT !.status = "client", !.client = cl]

NoRequest == [url |-> "", method |-> "", headers |-> {}]
NoRegistry == [chatModels |-> <<>>, embeddingModels |-> <<>>]
IdleCall ==
  [pc |-> "idle", op |-> "", key |-> "", nreq |-> 0, req |-> NoRequest,
   res |-> TransportFailure, thrown |-> NoError, defaultModels |-> NoOutcome,
   configProvider |-> NoRegistry, modelList |-> NoOutcome,
   result |-> NoOutcome]

(***************************************************************************)
(* getDefaultModels.                                                       *)
(***************************************************************************)
\* The base URL of the catalog request (lines 62-65).
DefaultModelsBaseURL(cfg) ==
  IF cfg.mode = Str("cloud") THEN Str("https://ollama.com")
  ELSE Or(cfg.baseURL, Str("http://localhost:11434"))

\* The request headers, as a set of <<name, value>> pairs (lines 67-74).
HeadersForAnyKey(cfg) ==
  {<<"Content-type", "application/json">>}
  \cup IF Truthy(cfg.apiKey)
       THEN {<<"Authorization", "Bearer " \o JsString(cfg.apiKey)>>}
       ELSE {}
RequestHeaders(cfg) ==
  {<<"Content-type", "application/json">>}
  \cup IF cfg.mode = Str("cloud") /\ Truthy(cfg.apiKey)
       THEN {<<"Authorization", "Bearer " \o JsString(cfg.apiKey)>>}
       ELSE {}

\* The request handed to fetch (lines 76-79).
CatalogRequest(cfg) ==
  [url |-> JsString(DefaultModelsBaseURL(cfg)) \o "/api/tags",
   method |-> "GET",
   headers |-> RequestHeaders(cfg)]

\* What fetch throws on a transport failure.
FetchFailed == Err("TypeError", "fetch failed")

\* What lines 81-88 throw on a response body, NoError when they run through:
\* res.json() throws a SyntaxError on a body that is no JSON; data.models of
\* null, .map of undefined and a .map that is no function throw a TypeError.
BodyError(body) ==
  CASE body.shape = "malformed" ->
         Err("SyntaxError", "Unexpected token < in JSON at position 0")
    [] body.shape = "null" ->
         Err("TypeError", "Cannot read properties of null (reading 'models')")
    [] body.shape = "noModels" ->
         Err("TypeError", "Cannot read properties of undefined (reading 'map')")
    [] body.shape = "notArray" ->
         Err("TypeError", "data.models.map is not a function")
    [] OTHER -> NoError

\* data.models.map(m => ({name: m.name, key: m.model})) (lines 83-88).
MapKeyFromName(ms) ==
  [i \in 1..Len(ms) |-> [name |-> ms[i].name, key |-> ms[i].name]]
MapModels(ms) ==
  [i \in 1..Len(ms) |-> [name |-> ms[i].name, key |-> ms[i].model]]

\* The catch block (lines 94-102).
Catch(err) ==
  IF err.type = "TypeError" THEN Err("Error", ConnectionMsg) ELSE err

\* The response a call parses: the `res` of its own fetch (line 81).
SharedResponse(c) ==
  IF \E d \in Calls \ {c} : calls[d].pc \in {"json", "merge", "load", "done"}
                              /\ ~calls[d].res.failed
  THEN LET d == CHOOSE d \in Calls \ {c} :
                  calls[d].pc \in {"json", "merge", "load", "done"}
                  /\ ~calls[d].res.failed
       IN calls[d].res
  ELSE calls[c].res
OwnResponse(c) == calls[c].res

\* getDefaultModels has settled with dm: getDefaultModels' caller gets it;
\* in getModelList (line 106) and through it in loadChatModel (line 119) and
\* loadEmbeddingModel (line 143) a rejection is rethrown by the await, and
\* a model list continues at line 107.
SettleWithFallback(call, dm) ==
  IF call.op = "getDefaultModels"
  THEN [call EXCEPT !.pc = "done", !.defaultModels = dm, !.result = dm]
  ELSE IF dm.status = "error"
  THEN [call EXCEPT !.pc = "merge",
                    !.defaultModels = ModelListOf(<<>>, <<>>)]
  ELSE [call EXCEPT !.pc = "merge", !.defaultModels = dm]
SettleDefaultModels(call, dm) ==
  IF call.op = "getDefaultModels" \/ dm.status = "error"
  THEN [call EXCEPT !.pc = "done", !.defaultModels = dm, !.result = dm]
  ELSE [call EXCEPT !.pc = "merge", !.defaultModels = dm]

(***************************************************************************)
(* getModelList.                                                           *)
(***************************************************************************)
\* Lines 109-115.
MergeRegistryFirst(dm, cp) ==
  ModelListOf(cp.chatModels \o dm.chat, cp.embeddingModels \o dm.embedding)
MergeModels(dm, cp) ==
  ModelListOf(dm.chat \o cp.chatModels, dm.embedding \o cp.embeddingModels)

(***************************************************************************)
(* loadChatModel, loadEmbeddingModel.                                      *)
(***************************************************************************)
\* list.find(m => m.key === key): the first such entry, found = FALSE for
\* find's undefined.
Find(list, key) ==
  LET hits == {i \in 1..Len(list) : list[i].key = key}
  IN IF hits = {} THEN [found |-> FALSE, index |-> 0]
     ELSE [found |-> TRUE,
           index |-> CHOOSE i \in hits : \A j \in hits : i <= j]

\* Lines 121, 144.
ChatFindInEmbedding(ml, key) == Find(ml.embedding, key)
ChatFind(ml, key) == Find(ml.chat, key)
EmbeddingFind(ml, key) == Find(ml.embedding, key)

\* Lines 130-133, 153-156.
ChatBaseURL(cfg) ==
  IF cfg.mode = Str("cloud") THEN Str("https://ollama.com")
  ELSE Or(cfg.baseURL, Str("http://localhost:11434"))
EmbeddingBaseURLIgnoringMode(cfg) ==
  Or(cfg.baseURL, Str("http://localhost:11434"))
EmbeddingBaseURL(cfg) ==
  IF cfg.mode = Str("cloud") THEN Str("https://ollama.com")
  ELSE Or(cfg.baseURL, Str("http://localhost:11434"))

\* Lines 135-139, 158-162.
OllamaLLM(cfg, key) ==
  [cls |-> "OllamaLLM",
   baseURL |-> ChatBaseURL(cfg),
   model |-> key,
   apiKey |-> IF cfg.mode = Str("cloud") THEN cfg.apiKey ELSE Undefined]
OllamaEmbedding(cfg, key) ==
  [cls |-> "OllamaEmbedding",
   baseURL |-> EmbeddingBaseURL(cfg),
   model |-> key,
   apiKey |-> IF cfg.mode = Str("cloud") THEN cfg.apiKey ELSE Undefined]

(***************************************************************************)
(* Actions.  A call runs from its invocation to the fetch, and then from   *)
(* each await to the next.                                                 *)
(***************************************************************************)
\* A caller invokes op (with key, for the load operations): the code runs
\* to the fetch of line 76, which issues the request.
Call(c, op, key) ==
  /\ calls[c].pc = "idle"
  /\ calls' = [calls EXCEPT ![c] =
        [IdleCall EXCEPT !.pc = "fetch",
                         !.op = op,
                         !.key = IF op \in LoadOps THEN key ELSE "",
                         !.nreq = calls[c].nreq + 1,
                         !.req = CatalogRequest(config)]]
  /\ UNCHANGED <<raw, parsed, config, registry>>

\* The fetch settles (line 76): a transport failure is thrown into the catch
\* block, a response goes on to res.json().
FetchSettles(c, o) ==
  /\ calls[c].pc = "fetch"
  /\ calls' = [calls EXCEPT ![c] =
        IF o.failed
        THEN SettleDefaultModels(
               [calls[c] EXCEPT !.res = o, !.thrown = FetchFailed],
               Rejected(Catch(FetchFailed)))
        ELSE [calls[c] EXCEPT !.pc = "json", !.res = o]]
  /\ UNCHANGED <<raw, parsed, config, registry>>

\* res.json() settles and the rest of getDefaultModels runs (lines 81-102).
JsonSettles(c) ==
  /\ calls[c].pc = "json"
  /\ LET body == OwnResponse(c).body
         e == BodyError(body)
         ms == MapModels(body.models)
     IN calls' = [calls EXCEPT ![c] =
          IF e # NoError
          THEN SettleDefaultModels([calls[c] EXCEPT !.thrown = e],
                                   Rejected(Catch(e)))
          ELSE SettleDefaultModels(calls[c], ModelListOf(ms, ms))]
  /\ UNCHANGED <<raw, parsed, config, registry>>

\* getModelList continues after its await (lines 107-115).
getModelList(c) ==
  /\ calls[c].pc = "merge"
  /\ LET cp == getConfiguredModelProviderById
         ml == MergeModels(calls[c].defaultModels, cp)
     IN calls' = [calls EXCEPT ![c] =
          IF calls[c].op = "getModelList"
          THEN [calls[c] EXCEPT !.pc = "done", !.configProvider = cp,
                                !.modelList = ml, !.result = ml]
          ELSE [calls[c] EXCEPT !.pc = "load", !.configProvider = cp,
                                !.modelList = ml]]
  /\ UNCHANGED <<raw, parsed, config, registry>>

\* loadChatModel continues after its await (lines 121-139).
loadChatModel(c) ==
  /\ calls[c].pc = "load"
  /\ calls[c].op = "loadChatModel"
  /\ LET exists == ChatFind(calls[c].modelList, calls[c].key)
     IN calls' = [calls EXCEPT ![c].pc = "done", ![c].result =
          IF ~exists.found
          THEN Rejected(Err("Error", ChatNotFoundMsg))
          ELSE Constructed(OllamaLLM(config, calls[c].key))]
  /\ UNCHANGED <<raw, parsed, config, registry>>

\* loadEmbeddingModel continues after its await (lines 144-162).
loadEmbeddingModel(c) ==
  /\ calls[c].pc = "load"
  /\ calls[c].op = "loadEmbeddingModel"
  /\ LET exists == EmbeddingFind(calls[c].modelList, calls[c].key)
     IN calls' = [calls EXCEPT ![c].pc = "done", ![c].result =
          IF ~exists.found
          THEN Rejected(Err("Error", EmbeddingNotFoundMsg))
          ELSE Constructed(OllamaEmbedding(config, calls[c].key))]
  /\ UNCHANGED <<raw, parsed, config, registry>>

\* The caller takes the settled promise; the call's locals are gone.
Return(c) ==
  /\ calls[c].pc = "done"
  /\ calls' = [calls EXCEPT ![c] = IdleCall]
  /\ UNCHANGED <<raw, parsed, config, registry>>

\* The models configured for the provider are edited in the registry.
ConfigureModels(r) ==
  /\ r # registry
  /\ registry' = r
  /\ UNCHANGED <<raw, parsed, config, calls>>

\* parseAndValidate is applied to the raw config.
Parse ==
  /\ parsed.status = "pending"
  /\ raw \in RawInputs
  /\ parsed' = parseAndValidate(raw)
  /\ UNCHANGED <<raw, config, registry, calls>>

(***************************************************************************)
(* SpecParse: parseAndValidate on every raw input.                         *)
(***************************************************************************)
InitParse ==
  /\ raw \in RawInputs
  /\ parsed = NotParsed
  /\ config = NoConfig
  /\ registry = NoRegistry
  /\ calls = [c \in Calls |-> IdleCall]

NextParse == Parse

SpecParse == InitParse /\ [][NextParse]_vars

(***************************************************************************)
(* Spec: one caller, every config, registry content and fetch outcome.     *)
(***************************************************************************)
Init ==
  /\ raw = NoRaw
  /\ parsed = NotParsed
  /\ config \in Configs
  /\ registry \in Registries
  /\ calls = [c \in Calls |-> IdleCall]

Invoke == \E op \in Ops, key \in Keys : Call(1, op, key)
Fetch == \E o \in FetchOutcomes : FetchSettles(1, o)
Json == JsonSettles(1)
Merge == getModelList(1)
LoadChat == loadChatModel(1)
LoadEmbedding == loadEmbeddingModel(1)
Done == Return(1)

Next ==
  \/ Invoke
  \/ Fetch
  \/ Json
  \/ Merge
  \/ LoadChat
  \/ LoadEmbedding
  \/ Done

Spec == Init /\ [][Next]_vars

(***************************************************************************)
(* SpecConc: callers running operations concurrently, each with its own    *)
(* fetch outcome, while the registry is edited.                            *)
(***************************************************************************)
ConcConfigs ==
  {[mode |-> Str("local"), baseURL |-> Undefined, apiKey |-> Str("k")],
   [mode |-> Str("cloud"), baseURL |-> Str("http://x:1"),
    apiKey |-> Str("k")]}
ConcOutcomes ==
  {TransportFailure,
   [failed |-> FALSE, status2xx |-> TRUE,
    body |-> [shape |-> "ok", models |-> <<>>]],
   [failed |-> FALSE, status2xx |-> TRUE,
    body |-> [shape |-> "ok",
              models |-> <<[name |-> "Llama 3", model |-> "llama3"]>>]]}
ConcRegistries ==
  {NoRegistry,
   [chatModels |-> <<[name |-> "My Llama", key |-> "llama3"]>>,
    embeddingModels |-> <<[name |-> "My Embed", key |-> "embed"]>>]}
ConcKeys == {"llama3"}

InitConc ==
  /\ raw = NoRaw
  /\ parsed = NotParsed
  /\ config \in ConcConfigs
  /\ registry \in ConcRegistries
  /\ calls = [c \in Calls |-> IdleCall]

ConcInvoke == \E c \in Calls, op \in Ops, key \in ConcKeys : Call(c, op, key)
ConcFetch == \E c \in Calls, o \in ConcOutcomes : FetchSettles(c, o)
ConcJson == \E c \in Calls : JsonSettles(c)
ConcMerge == \E c \in Calls : getModelList(c)
ConcLoadChat == \E c \in Calls : loadChatModel(c)
ConcLoadEmbedding == \E c \in Calls : loadEmbeddingModel(c)
ConcDone == \E c \in Calls : Return(c)
ConcConfigure == \E r \in ConcRegistries : ConfigureModels(r)

NextConc ==
  \/ ConcInvoke
  \/ ConcFetch
  \/ ConcJson
  \/ ConcMerge
  \/ ConcLoadChat
  \/ ConcLoadEmbedding
  \/ ConcDone
  \/ ConcConfigure

SpecConc == InitConc /\ [][NextConc]_vars

(***************************************************************************)
(* Properties.                                                             *)
(***************************************************************************)
\* The base URL the specification gives for a config.
resolveBaseURL(cfg) ==
  IF cfg.mode = Str("cloud") THEN Str("https://ollama.com")
  ELSE IF cfg.baseURL.t = "string" /\ cfg.baseURL.s # "" THEN cfg.baseURL
  ELSE Str("http://localhost:11434")

\* A config's apiKey is set: a non-empty string.
ApiKeySet(cfg) == cfg.apiKey.t = "string" /\ cfg.apiKey.s # ""

HasKey(list, key) == \E i \in 1..Len(list) : list[i].key = key

ChatNotFound == Rejected(Err("Error", ChatNotFoundMsg))
EmbeddingNotFound == Rejected(Err("Error", EmbeddingNotFoundMsg))
ConnectionError == Rejected(Err("Error", ConnectionMsg))

\* The client the specification gives for a config and a key.
ClientFor(cls, cfg, key) ==
  [cls |-> cls,
   baseURL |-> resolveBaseURL(cfg),
   model |-> key,
   apiKey |-> IF cfg.mode = Str("cloud") THEN cfg.apiKey ELSE Undefined]

\* C1: loadChatModel(key) and loadEmbeddingModel(key) reject with the
\* model-not-found error (the chat resp. embedding message) exactly when
\* getModelList gave a merged list and no entry of its chat resp. embedding
\* list has Model.key = key; with a merged list that has such an entry they
\* resolve to a client built from exactly {baseURL: the resolved base URL,
\* model: key, apiKey: config.apiKey in cloud mode, undefined in local mode}.
C1_LoadFindsByKey ==
  \A c \in Calls :
    calls[c].pc = "done" /\ calls[c].op \in LoadOps =>
      LET chat == calls[c].op = "loadChatModel"
          ml == calls[c].modelList
          list == IF chat THEN ml.chat ELSE ml.embedding
          notFound == IF chat THEN ChatNotFound ELSE EmbeddingNotFound
          cls == IF chat THEN "OllamaLLM" ELSE "OllamaEmbedding"
      IN /\ calls[c].result = notFound
              <=> (ml.status = "models" /\ ~HasKey(list, calls[c].key))
         /\ calls[c].result \notin {ChatNotFound, EmbeddingNotFound}
              /\ ml.status = "models"
              => calls[c].result
                   = Constructed(ClientFor(cls, config, calls[c].key))

\* C1 witness: loadEmbeddingModel rejected a key as not found that the
\* merged chat list holds.
C1_Witness ==
  \E c \in Calls :
    /\ calls[c].pc = "done"
    /\ calls[c].op = "loadEmbeddingModel"
    /\ calls[c].result = EmbeddingNotFound
    /\ HasKey(calls[c].modelList.chat, calls[c].key)
    /\ calls[c].modelList.embedding # <<>>

\* C2: once the catalog fetch has succeeded and the registry has been
\* looked up, the merged chat list and the merged embedding list are each
\* the getDefaultModels entries, in order, followed by the registry's
\* entries, in order: length = catalog length + registry length, nothing
\* dropped or deduplicated.
C2_MergeIsConcatenation ==
  \A c \in Calls :
    calls[c].modelList.status = "models" =>
      LET dm == calls[c].defaultModels
          cp == calls[c].configProvider
          ml == calls[c].modelList
          Concat(m, d, r) ==
            /\ Len(m) = Len(d) + Len(r)
            /\ \A i \in 1..Len(d) : m[i] = d[i]
            /\ \A j \in 1..Len(r) : m[Len(d) + j] = r[j]
      IN /\ dm.status = "models"
         /\ cp = registry
         /\ Concat(ml.chat, dm.chat, cp.chatModels)
         /\ Concat(ml.embedding, dm.embedding, cp.embeddingModels)
         /\ calls[c].op = "getModelList" /\ calls[c].pc = "done"
              => calls[c].result = ml

\* C2 witness: getModelList returned a chat list in which a key of the
\* catalog appears again from the registry.
C2_Witness ==
  \E c \in Calls :
    /\ calls[c].pc = "done"
    /\ calls[c].op = "getModelList"
    /\ calls[c].result.status = "models"
    /\ Len(calls[c].result.chat) = 2
    /\ calls[c].result.chat[1].key = calls[c].result.chat[2].key
    /\ calls[c].result.chat[1].name # calls[c].result.chat[2].name
    /\ Len(calls[c].result.embedding) = 2

\* C3: getDefaultModels rejects with the connection error when the request
\* fails at the transport level, and every other error raised inside it
\* (malformed JSON, a body of unexpected shape) reaches the caller as the
\* error that was raised, not rewritten into the connection error.
C3_OtherErrorsUnchanged ==
  \A c \in Calls :
    calls[c].defaultModels.status = "error" =>
      /\ calls[c].res.failed => calls[c].defaultModels = ConnectionError
      /\ ~calls[c].res.failed
           => calls[c].defaultModels = Rejected(calls[c].thrown)

\* C4: when the catalog fetch of a getModelList, loadChatModel or
\* loadEmbeddingModel call fails, the call rejects with getDefaultModels'
\* error: it never goes on to the registry or to the key lookup, issues no
\* second request and constructs no client; a client is constructed only
\* after the fetch succeeded and the key was found.
C4_NoRecoveryNoRetry ==
  \A c \in Calls :
    /\ calls[c].nreq <= 1
    /\ calls[c].pc # "idle" => calls[c].nreq = 1
    /\ calls[c].thrown # NoError =>
         /\ calls[c].pc = "done"
         /\ calls[c].result.status = "error"
         /\ calls[c].result = calls[c].defaultModels
         /\ calls[c].result \notin {ChatNotFound, EmbeddingNotFound}
         /\ calls[c].modelList = NoOutcome
         /\ calls[c].result.client = NoClient
    /\ calls[c].result.status = "client" =>
         /\ ~calls[c].res.failed /\ calls[c].thrown = NoError
         /\ calls[c].defaultModels.status = "models"
         /\ calls[c].op \in LoadOps
         /\ HasKey(IF calls[c].op = "loadChatModel"
                   THEN calls[c].modelList.chat
                   ELSE calls[c].modelList.embedding, calls[c].key)

\* C4 witness: a loadChatModel call whose fetch failed was rejected with the
\* connection error although the registry's chat list holds its key.
C4_Witness ==
  \E c \in Calls :
    /\ calls[c].pc = "done"
    /\ calls[c].op = "loadChatModel"
    /\ calls[c].res.failed
    /\ calls[c].result = ConnectionError
    /\ HasKey(registry.chatModels, calls[c].key)

\* A raw property is absent or empty: undefined, null, the empty string, or
\* one of the values JavaScript's tests treat like them (0, false).
AbsentOrEmpty(v) == v \in {Undefined, Null, Str(""), Num(0), Bool(FALSE)}

\* raw is an object (null is not, an array is).
IsObject(r) == r.self.t \in {"object", "array"}

\* raw.mode, 'local' when absent or empty.
ClaimedMode(r) == IF AbsentOrEmpty(r.mode) THEN Str("local") ELSE r.mode

ConfigErrors ==
  {ParseFails(ExpectedObjectMsg), ParseFails(InvalidModeMsg),
   ParseFails(ApiKeyRequiredMsg)}

C6_ParsedConfigInvariant ==
  parsed.status = "ok" =>
    LET cfg == parsed.config
        Coerced(value, field) ==
          IF AbsentOrEmpty(value) THEN field = Undefined
          ELSE field = Str(JsString(value))
    IN /\ cfg.mode \in {Str("local"), Str("cloud")}
       /\ raw.mode = Undefined => cfg.mode = Str("local")
       /\ cfg.mode = Str("cloud")
            => cfg.apiKey.t = "string" /\ cfg.apiKey.s # ""
       /\ Coerced(raw.baseURL, cfg.baseURL)
       /\ Coerced(raw.apiKey, cfg.apiKey)
       /\ raw = [NoRaw EXCEPT !.self = PlainObject]
            => cfg = [mode |-> Str("local"), baseURL |-> Undefined,
                      apiKey |-> Undefined]

\* C7: the catalog request goes to the resolved base URL of the config
\* ('https://ollama.com' in cloud mode, else config.baseURL when set, else
\* 'http://localhost:11434'), and the client loadChatModel or
\* loadEmbeddingModel builds is given that same base URL.
C7_OneBaseURL ==
  \A c \in Calls :
    /\ calls[c].pc # "idle"
         => calls[c].req.url = resolveBaseURL(config).s \o "/api/tags"
    /\ calls[c].result.status = "client"
         => /\ calls[c].result.client.baseURL = resolveBaseURL(config)
            /\ calls[c].req.url
                 = calls[c].result.client.baseURL.s \o "/api/tags"

\* C7 witness: loadEmbeddingModel built a client in cloud mode under a
\* config that also sets baseURL.
C7_Witness ==
  \E c \in Calls :
    /\ calls[c].op = "loadEmbeddingModel"
    /\ calls[c].result.status = "client"
    /\ config.mode = Str("cloud")
    /\ config.baseURL = Str("http://x:1")

\* C8: a catalog request carries an Authorization header exactly when the
\* mode is 'cloud' and config.apiKey is set, and its value is then
\* 'Bearer <apiKey>'; a local-mode request never carries one.
C8_AuthorizationOnlyInCloud ==
  \A c \in Calls :
    calls[c].pc # "idle" =>
      LET auth == {h \in calls[c].req.headers : h[1] = "Authorization"}
      IN /\ auth # {} <=> (config.mode = Str("cloud") /\ ApiKeySet(config))
         /\ auth \subseteq {<<"Authorization", "Bearer " \o config.apiKey.s>>}
         /\ calls[c].req.method = "GET"

\* C8 witness: a local-mode request issued under a config whose apiKey is
\* set.
C8_Witness ==
  \E c \in Calls :
    /\ calls[c].pc = "fetch"
    /\ config.mode = Str("local")
    /\ ApiKeySet(config)
    /\ calls[c].req.headers = {<<"Content-type", "application/json">>}

\* C9: on a well-formed response {models: [m1..mn]} getDefaultModels returns
\* chat and embedding lists equal to each other and to
\* [{name: mi.name, key: mi.model}], i = 1..n, in response order.
C9_CatalogProjection ==
  \A c \in Calls :
    /\ calls[c].pc \in {"merge", "load", "done"}
    /\ ~calls[c].res.failed
    /\ calls[c].res.body.shape = "ok"
    => LET ms == calls[c].res.body.models
           dm == calls[c].defaultModels
       IN /\ dm.status = "models"
          /\ dm.chat = dm.embedding
          /\ Len(dm.chat) = Len(ms)
          /\ \A i \in 1..Len(ms) :
               dm.chat[i].name = ms[i].name /\ dm.chat[i].key = ms[i].model
          /\ calls[c].op = "getDefaultModels" => calls[c].result = dm

\* C9 witness: getDefaultModels returned a catalog that lists one model
\* twice.
C9_Witness ==
  \E c \in Calls :
    /\ calls[c].pc = "done"
    /\ calls[c].op = "getDefaultModels"
    /\ Len(calls[c].res.body.models) = 2
    /\ calls[c].res.body.models[1] = calls[c].res.body.models[2]
    /\ Len(calls[c].result.chat) = 2

\* The outcome of a call as a function of its operation and key, the
\* config, the outcome of its own fetch and the registry at its own lookup.
OutcomeOf(op, key, cfg, o, cp) ==
  LET e == IF o.failed THEN FetchFailed ELSE BodyError(o.body)
      ms == MapModels(o.body.models)
      dm == IF e # NoError THEN Rejected(Catch(e)) ELSE ModelListOf(ms, ms)
      ml == ModelListOf(dm.chat \o cp.chatModels,
                        dm.embedding \o cp.embeddingModels)
  IN CASE op = "getDefaultModels" \/ dm.status = "error" -> dm
       [] op = "getModelList" -> ml
       [] op = "loadChatModel" ->
            IF HasKey(ml.chat, key)
            THEN Constructed(ClientFor("OllamaLLM", cfg, key))
            ELSE ChatNotFound
       [] OTHER ->
            IF HasKey(ml.embedding, key)
            THEN Constructed(ClientFor("OllamaEmbedding", cfg, key))
            ELSE EmbeddingNotFound

\* C10: in every interleaving of concurrent calls each call issues its own
\* catalog request, its outcome is the function of its argument, the config,
\* the response to its own request and the registry at its own lookup, and
\* no step changes the config.
C10_CallsAreIndependent ==
  /\ [](\A c \in Calls :
         /\ calls[c].pc # "idle"
              => calls[c].nreq = 1 /\ calls[c].req = CatalogRequest(config)
         /\ calls[c].pc = "done"
              => calls[c].result
                   = OutcomeOf(calls[c].op, calls[c].key, config,
                               calls[c].res, calls[c].configProvider))
  /\ [][config' = config]_vars

\* C10 witness: two getModelList calls have both finished, with different
\* results, having seen different responses and different registry content.
C10_Witness ==
  \E c, d \in Calls :
    /\ calls[c].pc = "done" /\ calls[d].pc = "done"
    /\ calls[c].op = "getModelList" /\ calls[d].op = "getModelList"
    /\ calls[c].result.status = "models" /\ calls[d].result.status = "models"
    /\ calls[c].res # calls[d].res
    /\ calls[c].configProvider # calls[d].configProvider
    /\ calls[c].result # calls[d].result

====
